---- MODULE Spec2Model ----
(***************************************************************************)
(* Model of VisitorTrafficFiltering (src/src/index.ts) together with the   *)
(* Express middleware and route of the README that drive it.               *)
(*                                                                         *)
(* JavaScript strings are sequences of tokens (a token stands for a run of *)
(* characters that the code never splits): "abc".startsWith, includes,    *)
(* template strings and new URL(...) are computed on these sequences.      *)
(***************************************************************************)
EXTENDS Integers, Sequences, FiniteSets, TLC

VARIABLES config, bypassToken, mode, req, pc, decision, result, res,
          apiQueries, lastEnvelope, verdictBlocked, fetch, fetches,
          mw, hops, followed

vars == <<config, bypassToken, mode, req, pc, decision, result, res,
          apiQueries, lastEnvelope, verdictBlocked, fetch, fetches,
          mw, hops, followed>>

\* ------------------------------------------------------------------ bounds

\* How many redirect responses a visitor follows in one chain.
MaxHops == 2
\* Longest list of messages in a service error envelope.
MaxMsgs == 2

\* ------------------------------------------------------- JavaScript values

\* undefined and null, as values distinct from every string of the model.
Undefined == <<"<undefined>">>
Null == <<"<null>">>

\* Truthiness of a string-or-undefined value: undefined, null and "" are falsy.
Truthy(s) == s # Undefined /\ s # Null /\ s # <<>>

\* `${x}` in a template string.
ToStr(x) == IF x = Undefined THEN <<"undefined">> ELSE IF x = Null THEN <<"null">> ELSE x

\* String.prototype.includes
includes(s, t) == \E i \in 0..(Len(s) - Len(t)) : SubSeq(s, i + 1, i + Len(t)) = t

SchemeTok == {"http://", "https://"}

\* s.startsWith('http://') || s.startsWith('https://')
startsWithHttp(s) == Len(s) >= 1 /\ s[1] \in SchemeTok

\* Index of the first token of s that lies in stops, Len(s)+1 when there is none.
FirstIdx(s, stops) ==
    IF \E i \in 1..Len(s) : s[i] \in stops
    THEN CHOOSE i \in 1..Len(s) : s[i] \in stops /\ \A j \in 1..(i - 1) : s[j] \notin stops
    ELSE Len(s) + 1

\* Number(s): the numeric strings of the model and their values; NaN otherwise.
NaN == -1
NumTok == {"99", "100", "403", "599", "600", "999"}
TokNum(t) ==
    CASE t = "99" -> 99 [] t = "100" -> 100 [] t = "403" -> 403
      [] t = "599" -> 599 [] t = "600" -> 600 [] t = "999" -> 999
Number(s) == IF Len(s) = 1 /\ s[1] \in NumTok THEN TokNum(s[1]) ELSE NaN
isNaN(n) == n = NaN

\* ------------------------------------------------------- new URL(string)

\* After the scheme of a special URL, leading slashes are skipped.
RECURSIVE DropSlashes(_)
DropSlashes(s) == IF Len(s) >= 1 /\ s[1] = "/" THEN DropSlashes(Tail(s)) ELSE s

\* new URL(s) without a base: throws (ok = FALSE) when s has no scheme, an
\* empty host or a forbidden host code point (space); otherwise host,
\* pathname ("/" when empty) and search ("" for a bare "?"), hash dropped.
URLparse(s) ==
    IF ~startsWithHttp(s)
    THEN [ok |-> FALSE, scheme |-> "", host |-> <<>>, pathname |-> <<>>, search |-> <<>>]
    ELSE LET rest == DropSlashes(Tail(s))
             h    == FirstIdx(rest, {"/", "?", "#"})
             host == SubSeq(rest, 1, h - 1)
             tail == SubSeq(rest, h, Len(rest))
             q    == FirstIdx(tail, {"?", "#"})
             path == SubSeq(tail, 1, q - 1)
             qs   == SubSeq(tail, q, Len(tail))
             f    == FirstIdx(qs, {"#"})
             srch == SubSeq(qs, 1, f - 1)
         IN  [ok       |-> host # <<>> /\ \A i \in 1..Len(host) : host[i] # " ",
              scheme   |-> s[1],
              host     |-> host,
              pathname |-> IF path = <<>> THEN <<"/">> ELSE path,
              search   |-> IF srch = <<"?">> THEN <<>> ELSE srch]

\* ------------------------------------------------------------ configuration

\* unwantedVisitorAction: 0 stands for "not set".
ActionUnset == 0
Actions == {ActionUnset, 1, 2, 3}

\* unwantedVisitorTo: unset, empty, numeric status strings, absolute URLs
\* (https and http, one that new URL rejects) and relative paths with and
\* without the leading slash.
Targets ==
    { Undefined, <<>>,
      <<"99">>, <<"100">>, <<"403">>, <<"599">>, <<"600">>, <<"999">>,
      <<"https://", "a.com", "/", "blocked">>,
      <<"http://", "a.com", "/", "blocked">>,
      <<"https://", " ">>,
      <<"/", "blocked">>,
      <<"blocked">> }

Configs ==
    [isProtected : BOOLEAN, unwantedVisitorTo : Targets, unwantedVisitorAction : Actions]

\* crypto.randomBytes(32).toString('hex'): the tokens two instances may draw.
InstanceTokens == { <<"a", "b">>, <<"b", "a">> }

\* ------------------------------------------------------------------ inputs

TokenHeaders  == { Undefined, <<>>, <<"a">>, <<"a", "b">>, <<"b", "a">>, <<"a", "b", "a">> }
\* (x-vtf-bypass, x-vtf-token) header pairs: no flag, a flag that is not '1',
\* and the flag with every token
BypassPairs ==
    { <<Undefined, Undefined>>, <<Undefined, <<"a", "b">> >>, << <<"0">>, <<"a", "b">> >> }
        \cup { << <<"1">>, t >> : t \in TokenHeaders }
Protocols     == { Undefined, <<"https">> }
Hosts         == { Undefined, <<"a.com">>, <<"b.com">> }
Paths         == { <<"/", "blocked">>, <<"/", "blocked", "?", "x=1">>, <<"/", "home">> }

IPv4Literals == { <<"1.1.1.1">> }
IPv6Literals == { <<"::1">> }
\* (x-forwarded-for, connection.remoteAddress) pairs of inline requests
Addresses ==
    { <<Undefined, <<"::1">> >>, <<Undefined, Undefined>>,
      << <<"1.1.1.1">>, <<"::1">> >>, << <<"1.1.1.1, 2.2.2.2">>, <<"::1">> >> }
\* ip arguments of manual calls
IpArgs == { <<"1.1.1.1">>, <<"::1">>, <<"1.1.1">>, <<"a.com">>, <<>> }
\* event arguments of manual calls: a label, paths, full URLs, and strings
\* with a scheme that new URL rejects (a space where the host should be)
Events ==
    { <<"page-view">>, <<"blocked">>, <<"/", "blocked">>, <<"/", "home">>,
      <<"https://", "a.com", "/", "blocked">>, <<"http://", " ">>,
      <<"http://", " ", "/", "blocked">>, <<"http://", " ", "/", "403">> }
Domains == { <<"a.com">>, <<"b.com">> }

NoReq ==
    [bypassHeader |-> Undefined, tokenHeader |-> Undefined, protocol |-> Undefined,
     host |-> Undefined, originalUrl |-> <<>>, xff |-> Undefined,
     remoteAddress |-> Undefined, ip |-> Undefined, event |-> <<>>, domain |-> <<>>]

InlineReq(b, p, h, u, a) ==
    [NoReq EXCEPT !.bypassHeader = b[1], !.tokenHeader = b[2], !.protocol = p, !.host = h,
                  !.originalUrl = u, !.xff = a[1], !.remoteAddress = a[2]]

ManualArgs(ip, event, domain) ==
    [NoReq EXCEPT !.ip = ip, !.event = event, !.domain = domain]

\* ------------------------------------------------------------------ guards

\* Variant: the master switch is never consulted.
protectionOff_Never == FALSE

\* if (!this.config.isProtected) return
protectionOff == ~config.isProtected

\* Variant: a token of another length is compared on the common prefix
\* instead of being rejected.
isValidBypassToken_PrefixOnly(token) ==
    IF ~Truthy(token) THEN FALSE
    ELSE \A i \in 1..Len(bypassToken) : i <= Len(token) => token[i] = bypassToken[i]

\* isValidBypassToken: a falsy token is rejected; timingSafeEqual throws a
\* RangeError on buffers of different length, which the catch turns into false.
isValidBypassToken(token) ==
    IF ~Truthy(token) THEN FALSE
    ELSE IF Len(token) # Len(bypassToken) THEN FALSE
    ELSE token = bypassToken

\* bypassHeader === '1' && this.isValidBypassToken(tokenHeader)
bypassed(r) == r.bypassHeader = <<"1">> /\ isValidBypassToken(r.tokenHeader)

\* Variant: any non-empty address passes.
isValidIp_NonEmpty(ip) == Truthy(ip)

\* net.isIPv4(ip) || net.isIPv6(ip)
isValidIp(ip) == ip \in IPv4Literals \/ ip \in IPv6Literals

\* req.headers['x-forwarded-for'] || req.connection.remoteAddress
clientIp(r) == IF Truthy(r.xff) THEN r.xff ELSE r.remoteAddress

\* `${protocol}://${host}${path}` with protocol = req.protocol || 'http'
getCurrentUrl(r) ==
    (IF Truthy(r.protocol) /\ r.protocol = <<"https">> THEN <<"https://">> ELSE <<"http://">>)
        \o ToStr(r.host) \o r.originalUrl

\* The URL evaluateVisitorManually compares: the event when it is a full URL,
\* else https://<domain><event with a leading slash>.
manualCurrentUrl(event, domain) ==
    IF startsWithHttp(event) THEN event
    ELSE <<"https://">> \o domain
         \o (IF Len(event) >= 1 /\ event[1] = "/" THEN event ELSE <<"/">> \o event)

\* Variant: the query string is left out of the comparison.
urlsMatch_IgnoreQuery(currentUrl, targetUrl) ==
    LET cur == URLparse(currentUrl)
        tgt == URLparse(targetUrl)
    IN  IF startsWithHttp(targetUrl)
        THEN IF cur.ok /\ tgt.ok
             THEN cur.host = tgt.host /\ cur.pathname = tgt.pathname
             ELSE includes(currentUrl, targetUrl)
        ELSE IF cur.ok
             THEN cur.pathname = targetUrl
             ELSE includes(currentUrl, targetUrl)

\* Variant: the catch answers "no match" instead of trying containment.
urlsMatch_NoFallback(currentUrl, targetUrl) ==
    LET cur == URLparse(currentUrl)
        tgt == URLparse(targetUrl)
    IN  IF startsWithHttp(targetUrl)
        THEN IF cur.ok /\ tgt.ok
             THEN cur.host = tgt.host /\ cur.pathname = tgt.pathname /\ cur.search = tgt.search
             ELSE FALSE
        ELSE IF cur.ok
             THEN cur.pathname \o cur.search = targetUrl \/ cur.pathname = targetUrl
             ELSE FALSE

\* urlsMatch: host, pathname and search equal for an absolute target; for any
\* other target the current path+query or bare path equals it; when new URL
\* throws, currentUrl.includes(targetUrl).
urlsMatch(currentUrl, targetUrl) ==
    LET cur == URLparse(currentUrl)
        tgt == URLparse(targetUrl)
    IN  IF startsWithHttp(targetUrl)
        THEN IF cur.ok /\ tgt.ok
             THEN cur.host = tgt.host /\ cur.pathname = tgt.pathname /\ cur.search = tgt.search
             ELSE includes(currentUrl, targetUrl)
        ELSE IF cur.ok
             THEN cur.pathname \o cur.search = targetUrl \/ cur.pathname = targetUrl
             ELSE includes(currentUrl, targetUrl)

\* this.config.unwantedVisitorTo && this.urlsMatch(currentUrl, unwantedVisitorTo)
selfUrl(currentUrl) ==
    Truthy(config.unwantedVisitorTo) /\ urlsMatch(currentUrl, config.unwantedVisitorTo)

\* Where the synchronous part of evaluateVisitor ends (lines 72-103).
InlineDecision(r) ==
    IF protectionOff THEN "disabled"
    ELSE IF bypassed(r) THEN "bypass"
    ELSE IF selfUrl(getCurrentUrl(r)) THEN "selfurl"
    ELSE IF r.host = Undefined THEN "typeerror"
    ELSE IF ~isValidIp(clientIp(r)) THEN "invalidip"
    ELSE "query"

\* Where the synchronous part of evaluateVisitorManually ends (lines 130-157).
ManualDecision(a) ==
    IF protectionOff THEN "disabled"
    ELSE IF selfUrl(manualCurrentUrl(a.event, a.domain)) THEN "selfurl"
    ELSE IF ~isValidIp(a.ip) THEN "invalidip"
    ELSE "query"

\* ------------------------------------------------------- remote service

Msgs == { <<"a">>, <<"b">> }
MsgLists == UNION { [1..n -> Msgs] : n \in 0..MaxMsgs }

\* What comes back from the analytics request: a transport failure, a body
\* that is not JSON, an error envelope (message a string or a list), or a
\* verdict (need_to_block, detect_activity; FALSE / undefined when absent).
NoEnvelope ==
    [kind |-> "none", isArray |-> FALSE, messages |-> <<>>, block |-> FALSE, detect |-> Undefined]
Envelopes ==
    { [NoEnvelope EXCEPT !.kind = k] : k \in {"transport", "malformed"} }
    \cup { [NoEnvelope EXCEPT !.kind = "error", !.messages = <<m>>] : m \in Msgs }
    \cup { [NoEnvelope EXCEPT !.kind = "error", !.isArray = TRUE, !.messages = l] : l \in MsgLists }
    \cup { [NoEnvelope EXCEPT !.kind = "data", !.block = b, !.detect = d] :
             b \in BOOLEAN, d \in { Undefined, <<"bot">> } }

\* Array.prototype.join(', ')
RECURSIVE join(_)
join(l) ==
    IF l = <<>> THEN <<>>
    ELSE IF Len(l) = 1 THEN l[1]
    ELSE l[1] \o <<", ">> \o join(Tail(l))

\* Variant: only the first message of a list is reported.
serviceErrorText_FirstOnly(e) == IF e.messages = <<>> THEN <<>> ELSE e.messages[1]

\* Array.isArray(data.error.message) ? data.error.message.join(', ') : data.error.message
serviceErrorText(e) == IF e.isArray THEN join(e.messages) ELSE e.messages[1]

\* The message of whatever the try block throws before a verdict is read.
thrownMessage(e) ==
    CASE e.kind = "transport" -> <<"connect ECONNREFUSED">>
      [] e.kind = "malformed" -> <<"Unexpected token in JSON">>
      [] e.kind = "error"     -> <<"Requesting analytics error: ">> \o serviceErrorText(e)

InvalidIpMessage == <<"Invalid IP address.">>
InlinePrefix == <<"Error handling visitor: ">>
ManualPrefix == <<"Error handling visitor manually: ">>

\* ------------------------------------------------------------- responses

NoRes == [headersSent |-> FALSE, writes |-> <<>>]
Write(op, status, body) == [op |-> op, status |-> status, body |-> body]
Sent(r, w) == [headersSent |-> TRUE, writes |-> Append(r.writes, w)]

\* Variant: the upper end of the range is excluded.
sendStatusCode_OffByOne(statusCode) ==
    IF statusCode >= 100 /\ statusCode < 599 THEN statusCode ELSE 500

\* lines 210-214: a status in [100,599] is sent as is, any other number as 500
sendStatusCode(statusCode) ==
    IF statusCode >= 100 /\ statusCode <= 599 THEN statusCode ELSE 500

\* lines 254-258: the same clamp for the returned content
contentStatusCode(statusCode) ==
    IF statusCode >= 100 /\ statusCode <= 599 THEN statusCode ELSE 500

iframeBody(to) == <<"<iframe src=">> \o to \o <<" width=100% height=100%></iframe><style>">>
iframeContent(to) == <<"<iframe src=">> \o to \o <<" width=100% height=100%></iframe><style>">>
redirectContent(to) ==
    <<"<p>Redirecting to <a href=">> \o to \o <<">">> \o to
        \o <<"</a></p><script>window.location.href=">> \o to \o <<"</script>">>
AccessDeniedPage == <<"<!DOCTYPE html><html><body><div><b>Access Denied!</b></div></body></html>">>
AccessDeniedContent == <<"<p>Access Denied!</p>">>
FetchErrorBody == <<"Error fetching unwanted content.">>
ContentNotAvailable == <<"<p>Content not available</p>">>
FetchedBody == <<"<html>blocked page</html>">>
HelloWorld == <<"Hello World!">>

\* handleBlockedVisitor, up to its return: the write it makes, whether it
\* started the loopback fetch, whether new URL(unwantedVisitorTo) threw.
handleBlockedVisitor ==
    LET to == config.unwantedVisitorTo
        quiet == [writes |-> <<>>, startFetch |-> FALSE, threw |-> FALSE]
    IN  IF Truthy(to)
        THEN IF ~isNaN(Number(to))
             THEN [quiet EXCEPT !.writes = <<Write("sendStatus", sendStatusCode(Number(to)), <<>>)>>]
             ELSE IF config.unwantedVisitorAction = 2
             THEN [quiet EXCEPT !.writes = <<Write("send", 200, iframeBody(to))>>]
             ELSE IF config.unwantedVisitorAction = 3
             THEN IF URLparse(to).ok
                  THEN [quiet EXCEPT !.startFetch = TRUE]
                  ELSE [quiet EXCEPT !.threw = TRUE]
             ELSE [quiet EXCEPT !.writes = <<Write("redirect", 302, to)>>]
        ELSE [quiet EXCEPT !.writes = <<Write("send", 403, AccessDeniedPage)>>]

\* The content field of a manual result: null, or the promise an async
\* function returns (pending, or fulfilled with a number or a string).
NullContent ==
    [kind |-> "null", settled |-> TRUE, isNumber |-> FALSE, num |-> 0, html |-> <<>>]
PendingPromise == [NullContent EXCEPT !.kind = "promise", !.settled = FALSE]
PromiseOfNumber(n) == [NullContent EXCEPT !.kind = "promise", !.isNumber = TRUE, !.num = n]
PromiseOfHtml(h) == [NullContent EXCEPT !.kind = "promise", !.html = h]

\* getBlockedContent, up to its first await: the promise it returns and
\* whether the loopback fetch was started.
getBlockedContent ==
    LET to == config.unwantedVisitorTo
        now(c) == [content |-> c, startFetch |-> FALSE]
    IN  IF Truthy(to)
        THEN IF ~isNaN(Number(to))
             THEN now(PromiseOfNumber(contentStatusCode(Number(to))))
             ELSE IF config.unwantedVisitorAction = 2
             THEN now(PromiseOfHtml(iframeContent(to)))
             ELSE IF config.unwantedVisitorAction = 3
             THEN IF URLparse(to).ok
                  THEN [content |-> PendingPromise, startFetch |-> TRUE]
                  ELSE now(PromiseOfHtml(ContentNotAvailable))
             ELSE now(PromiseOfHtml(redirectContent(to)))
        ELSE now(PromiseOfHtml(AccessDeniedContent))

\* https.request(url, ...) in httpRequest: an http: URL makes it throw, so
\* only an https target can be fetched.
canFetch(to) == URLparse(to).ok /\ URLparse(to).scheme = "https://"

\* ----------------------------------------------------------------- results

\* The promise an evaluation returns: pending, resolved (for the manual mode
\* with need_to_block, detect_activity and content) or rejected with an Error.
NoResult ==
    [state |-> "pending", error |-> <<>>, need_to_block |-> FALSE,
     detect_activity |-> Null, content |-> NullContent]
Resolved(nb, da, c) ==
    [NoResult EXCEPT !.state = "resolved", !.need_to_block = nb,
                     !.detect_activity = da, !.content = c]
ResolvedVoid == [NoResult EXCEPT !.state = "resolved"]
Rejected(msg) == [NoResult EXCEPT !.state = "rejected", !.error = msg]

\* ------------------------------------------------------------------- state

Init ==
    /\ config \in Configs
    /\ bypassToken \in InstanceTokens
    /\ mode = "none"
    /\ req = NoReq
    /\ pc = "idle"
    /\ decision = "none"
    /\ result = NoResult
    /\ res = NoRes
    /\ apiQueries = 0
    /\ lastEnvelope = NoEnvelope
    /\ verdictBlocked = FALSE
    /\ fetch = "none"
    /\ fetches = 0
    /\ mw = "none"
    /\ hops = 0
    /\ followed = FALSE

\* An HTTP request reaches the middleware of the README (app.use).
RequestArrives ==
    /\ pc = "idle"
    /\ \E b \in BypassPairs, p \in Protocols, h \in Hosts, u \in Paths, a \in Addresses :
          req' = InlineReq(b, p, h, u, a)
    /\ mode' = "inline"
    /\ pc' = "arrived"
    /\ mw' = "awaiting"
    /\ UNCHANGED <<config, bypassToken, decision, result, res, apiQueries, lastEnvelope,
                   verdictBlocked, fetch, fetches, hops, followed>>

\* evaluateVisitor(req, res) up to its await (lines 72-103).
EvaluateVisitor ==
    /\ pc = "arrived"
    /\ LET d == InlineDecision(req) IN
        /\ decision' = d
        /\ pc' = IF d = "query" THEN "awaitApi" ELSE "done"
        /\ apiQueries' = IF d = "query" THEN apiQueries + 1 ELSE apiQueries
        /\ result' = CASE d \in {"disabled", "bypass", "selfurl"} -> ResolvedVoid
                       [] d = "typeerror" -> Rejected(<<"Cannot read properties of undefined">>)
                       [] d = "invalidip" -> Rejected(InvalidIpMessage)
                       [] d = "query"     -> NoResult
    /\ UNCHANGED <<config, bypassToken, mode, req, res, lastEnvelope, verdictBlocked,
                   fetch, fetches, mw, hops, followed>>

\* evaluateVisitorManually(ip, userAgent, event, domain) up to its await
\* (lines 130-157).
EvaluateVisitorManually ==
    /\ pc = "idle"
    /\ \E ip \in IpArgs, event \in Events, domain \in Domains :
          req' = ManualArgs(ip, event, domain)
    /\ mode' = "manual"
    /\ LET d == ManualDecision(req') IN
        /\ decision' = d
        /\ pc' = IF d = "query" THEN "awaitApi" ELSE "done"
        /\ apiQueries' = IF d = "query" THEN apiQueries + 1 ELSE apiQueries
        /\ result' = CASE d \in {"disabled", "selfurl"} -> Resolved(FALSE, Null, NullContent)
                       [] d = "invalidip" -> Rejected(InvalidIpMessage)
                       [] d = "query"     -> NoResult
    /\ UNCHANGED <<config, bypassToken, res, lastEnvelope, verdictBlocked, fetch, fetches,
                   mw, hops, followed>>

\* The analytics request settles and evaluateVisitor runs to its end
\* (lines 104-116).
ApiRespondsInline ==
    /\ mode = "inline" /\ pc = "awaitApi"
    /\ \E e \in Envelopes :
        /\ lastEnvelope' = e
        /\ IF e.kind # "data"
           THEN /\ result' = Rejected(InlinePrefix \o thrownMessage(e))
                /\ UNCHANGED <<res, verdictBlocked, fetch, fetches>>
           ELSE IF ~e.block
           THEN /\ result' = ResolvedVoid
                /\ UNCHANGED <<res, verdictBlocked, fetch, fetches>>
           ELSE LET h == handleBlockedVisitor IN
                /\ verdictBlocked' = TRUE
                /\ res' = IF h.writes = <<>> THEN res ELSE Sent(res, h.writes[1])
                /\ fetch' = IF h.startFetch THEN "pending" ELSE fetch
                /\ fetches' = IF h.startFetch THEN fetches + 1 ELSE fetches
                /\ result' = IF h.threw THEN Rejected(InlinePrefix \o <<"Invalid URL">>)
                             ELSE ResolvedVoid
    /\ pc' = "done"
    /\ UNCHANGED <<config, bypassToken, mode, req, decision, apiQueries, mw, hops, followed>>

\* The analytics request settles and evaluateVisitorManually runs to its end
\* (lines 158-175).
ApiRespondsManual ==
    /\ mode = "manual" /\ pc = "awaitApi"
    /\ \E e \in Envelopes :
        /\ lastEnvelope' = e
        /\ IF e.kind # "data"
           THEN /\ result' = Rejected(ManualPrefix \o thrownMessage(e))
                /\ UNCHANGED <<verdictBlocked, fetch, fetches>>
           ELSE IF ~e.block
           THEN /\ result' = Resolved(FALSE, e.detect, NullContent)
                /\ UNCHANGED <<verdictBlocked, fetch, fetches>>
           ELSE LET g == getBlockedContent IN
                /\ verdictBlocked' = TRUE
                /\ fetch' = IF g.startFetch THEN "pending" ELSE fetch
                /\ fetches' = IF g.startFetch THEN fetches + 1 ELSE fetches
                /\ result' = Resolved(TRUE, e.detect, g.content)
    /\ pc' = "done"
    /\ UNCHANGED <<config, bypassToken, mode, req, decision, res, apiQueries, mw, hops,
                   followed>>

\* The continuation of the README middleware after `await
\* filter.evaluateVisitor(req, res)`: next(error) on a rejection, otherwise
\* next(!res.headersSent ? undefined : null); the route (res.send('Hello
\* World!')) is entered when no response has been sent yet.
MiddlewareContinues ==
    /\ mode = "inline" /\ pc = "done" /\ mw = "awaiting"
    /\ IF result.state = "rejected"
       THEN mw' = "error" /\ UNCHANGED res
       ELSE IF ~res.headersSent
       THEN mw' = "route" /\ res' = Sent(res, Write("send", 200, HelloWorld))
       ELSE mw' = "skipped" /\ UNCHANGED res
    /\ UNCHANGED <<config, bypassToken, mode, req, pc, decision, result, apiQueries,
                   lastEnvelope, verdictBlocked, fetch, fetches, hops, followed>>

\* The loopback fetch started by handleBlockedVisitor settles: .then sends the
\* body, .catch sends status 500 with a fixed text (lines 221-226). The
\* callbacks run after the continuation of the awaiting middleware.
FetchSettlesInline ==
    /\ mode = "inline" /\ fetch = "pending" /\ mw # "awaiting"
    /\ \E ok \in BOOLEAN :
        /\ ok => canFetch(config.unwantedVisitorTo)
        /\ res' = IF ok THEN Sent(res, Write("send", 200, FetchedBody))
                  ELSE Sent(res, Write("send", 500, FetchErrorBody))
    /\ fetch' = "done"
    /\ UNCHANGED <<config, bypassToken, mode, req, pc, decision, result, apiQueries,
                   lastEnvelope, verdictBlocked, fetches, mw, hops, followed>>

\* The loopback fetch awaited by getBlockedContent settles: the promise held
\* in content is fulfilled with the body, or with the fallback (lines 267-272).
FetchSettlesManual ==
    /\ mode = "manual" /\ fetch = "pending"
    /\ \E ok \in BOOLEAN :
        /\ ok => canFetch(config.unwantedVisitorTo)
        /\ result' = [result EXCEPT !.content =
                         PromiseOfHtml(IF ok THEN FetchedBody ELSE ContentNotAvailable)]
    /\ fetch' = "done"
    /\ UNCHANGED <<config, bypassToken, mode, req, pc, decision, res, apiQueries,
                   lastEnvelope, verdictBlocked, fetches, mw, hops, followed>>

\* ------------------------------------------------------------- the visitor

\* s without its fragment
NoFragment(s) == SubSeq(s, 1, FirstIdx(s, {"#"}) - 1)

\* The directory of a request target: its path up to the last slash.
Dir(u) ==
    LET path == SubSeq(u, 1, FirstIdx(u, {"?", "#"}) - 1)
        last == CHOOSE i \in 0..Len(path) :
                    /\ i > 0 => path[i] = "/"
                    /\ \A j \in (i + 1)..Len(path) : path[j] # "/"
    IN  SubSeq(path, 1, last)

\* The request a client makes for the Location of res.redirect(302,
\* unwantedVisitorTo) (line 228), resolved against the request that was
\* answered: an absolute URL names host and path, a path with a leading slash
\* replaces the path, any other path replaces the last segment.
LocationRequest(loc, r) ==
    IF startsWithHttp(loc)
    THEN LET u == URLparse(loc) IN
         [r EXCEPT !.protocol = IF u.scheme = "https://" THEN <<"https">> ELSE <<"http">>,
                   !.host = u.host,
                   !.originalUrl = u.pathname \o u.search]
    ELSE IF Len(loc) >= 1 /\ loc[1] = "/"
    THEN [r EXCEPT !.originalUrl = NoFragment(loc)]
    ELSE [r EXCEPT !.originalUrl = Dir(r.originalUrl) \o NoFragment(loc)]

\* The blocked visitor follows the redirect and requests unwantedVisitorTo
\* from the same application.
VisitorFollowsRedirect ==
    /\ mode = "inline" /\ pc = "done" /\ mw # "awaiting"
    /\ hops < MaxHops
    /\ Len(res.writes) >= 1 /\ res.writes[1].op = "redirect"
    /\ startsWithHttp(res.writes[1].body) => URLparse(res.writes[1].body).ok
    /\ req' = LocationRequest(res.writes[1].body, req)
    /\ hops' = hops + 1
    /\ followed' = TRUE
    /\ pc' = "arrived"
    /\ mw' = "awaiting"
    /\ decision' = "none"
    /\ result' = NoResult
    /\ res' = NoRes
    /\ apiQueries' = 0
    /\ lastEnvelope' = NoEnvelope
    /\ verdictBlocked' = FALSE
    /\ fetch' = "none"
    /\ fetches' = 0
    /\ UNCHANGED <<config, bypassToken, mode>>

Next ==
    \/ RequestArrives
    \/ EvaluateVisitor
    \/ EvaluateVisitorManually
    \/ ApiRespondsInline
    \/ ApiRespondsManual
    \/ MiddlewareContinues
    \/ FetchSettlesInline
    \/ FetchSettlesManual
    \/ VisitorFollowsRedirect

Spec == Init /\ [][Next]_vars

\* ================================================================== claims

\* The writes made by the evaluator (everything but the route's own answer).
EvaluatorWrites == SelectSeq(res.writes, LAMBDA w : w.body # HelloWorld)

\* The evaluation has run its synchronous part.
Evaluated == mode # "none" /\ pc \in {"awaitApi", "done"}

\* The request of the current inline evaluation with both bypass headers removed.
WithoutBypassHeaders == [req EXCEPT !.bypassHeader = Undefined, !.tokenHeader = Undefined]

\* C1: inline, protection enabled, bypass flag '1': with the instance's own
\* token the evaluation resolves as allowed with no remote query and no write
\* by the evaluator; with any other token (missing, empty, other length,
\* another instance's) it takes exactly the path the same request takes
\* without bypass headers, and no token makes the validation throw.
C1_BypassToken ==
    (mode = "inline" /\ Evaluated /\ config.isProtected /\ req.bypassHeader = <<"1">>) =>
        IF req.tokenHeader = bypassToken
        THEN /\ decision = "bypass"
             /\ result = ResolvedVoid
             /\ apiQueries = 0 /\ fetches = 0
             /\ EvaluatorWrites = <<>>
        ELSE /\ decision # "bypass"
             /\ decision = InlineDecision(WithoutBypassHeaders)

\* C1 witness: a request with the flag and the instance token was let through.
C1_Witness ==
    /\ mode = "inline" /\ pc = "done" /\ config.isProtected
    /\ req.bypassHeader = <<"1">> /\ req.tokenHeader = bypassToken
    /\ decision = "bypass" /\ mw = "route"

\* The URL the self-URL guard of the current evaluation compares.
EffectiveUrl ==
    IF mode = "inline" THEN getCurrentUrl(req) ELSE manualCurrentUrl(req.event, req.domain)

\* The outcome "allowed": resolved, nothing blocked, nothing asked, nothing written.
Allowed ==
    /\ result.state = "resolved" /\ ~result.need_to_block /\ result.content = NullContent
    /\ ~verdictBlocked /\ apiQueries = 0 /\ fetches = 0 /\ EvaluatorWrites = <<>>

\* C2: whenever the effective URL of the request matches unwantedVisitorTo the
\* evaluation is skipped as allowed without a remote query, and a blocked
\* visitor who follows the redirect to unwantedVisitorTo is not evaluated,
\* blocked or redirected again: no chain of redirects is longer than one.
C2_SelfRedirectLoopFree ==
    /\ (Evaluated /\ selfUrl(EffectiveUrl)) => Allowed
    /\ (followed /\ Evaluated) => Allowed
    /\ hops <= 1

\* The client IP of the current evaluation.
EvaluatedIp == IF mode = "inline" THEN clientIp(req) ELSE req.ip

\* An IPv4 or IPv6 literal among the addresses of the model.
IsIpLiteral(ip) == ip = <<"1.1.1.1">> \/ ip = <<"::1">>

\* C3 as stated: every evaluation whose client IP is no IPv4/IPv6 literal ends
\* with the "Invalid IP address." error and issues no remote query or fetch.
C3_InvalidIpAlwaysRejected ==
    (Evaluated /\ ~IsIpLiteral(EvaluatedIp)) =>
        /\ result = Rejected(InvalidIpMessage)
        /\ apiQueries = 0 /\ fetches = 0

\* No earlier step of the evaluation decides before the IP check is reached.
ReachesIpCheck ==
    /\ config.isProtected
    /\ ~(mode = "inline" /\ req.bypassHeader = <<"1">> /\ req.tokenHeader = bypassToken)
    /\ ~selfUrl(EffectiveUrl)
    /\ ~(mode = "inline" /\ req.host = Undefined)

\* C3 amended: an evaluation whose client IP is no IPv4/IPv6 literal never
\* issues a remote query or a loopback fetch, and it ends with exactly the
\* "Invalid IP address." error whenever protection is enabled, no valid bypass
\* token is presented, the URL does not match unwantedVisitorTo and (inline)
\* the request has a host; otherwise the earlier step decides.
C3_InvalidIpFailsFast ==
    (Evaluated /\ ~IsIpLiteral(EvaluatedIp)) =>
        /\ apiQueries = 0 /\ fetches = 0 /\ pc = "done"
        /\ ReachesIpCheck => result = Rejected(InvalidIpMessage)
        /\ ~ReachesIpCheck => result # Rejected(InvalidIpMessage)

\* C3 witness: a protected manual evaluation of the partial address 1.1.1 was rejected.
C3_Witness ==
    /\ Evaluated /\ ~IsIpLiteral(EvaluatedIp) /\ ReachesIpCheck
    /\ result = Rejected(InvalidIpMessage) /\ mode = "manual"
    /\ req.ip = <<"1.1.1">>

\* C4: with isProtected false, whatever the other fields and inputs (invalid
\* IP, bypass headers), evaluateVisitor resolves without a remote query, a
\* fetch or a write, and evaluateVisitorManually resolves to need_to_block
\* false, detect_activity null, content null without a remote query.
C4_DisabledIsNoOp ==
    (Evaluated /\ ~config.isProtected) =>
        /\ pc = "done" /\ apiQueries = 0 /\ fetches = 0 /\ lastEnvelope = NoEnvelope
        /\ mode = "inline" => (result = ResolvedVoid /\ EvaluatorWrites = <<>>)
        /\ mode = "manual" => (result = Resolved(FALSE, Null, NullContent) /\ res = NoRes)

\* C4 witness: an unprotected inline evaluation of a request with an invalid
\* IP and a bypass flag ended as a no-op.
C4_Witness ==
    /\ mode = "inline" /\ pc = "done" /\ ~config.isProtected
    /\ ~IsIpLiteral(EvaluatedIp) /\ req.bypassHeader = <<"1">>
    /\ Truthy(config.unwantedVisitorTo) /\ config.unwantedVisitorAction = 3
    /\ result = ResolvedVoid

\* The status the numeric string s stands for: itself in [100,599], else 500.
StatusOf(s) == IF TokNum(s[1]) \in 100..599 THEN TokNum(s[1]) ELSE 500
IsNumeric(s) == s # Undefined /\ Len(s) = 1 /\ s[1] \in NumTok

\* C5: for a blocked verdict and every unwantedVisitorAction, a numeric
\* unwantedVisitorTo in [100,599] yields exactly that status and one outside
\* the range yields 500, with no iframe, redirect or loopback fetch: as the
\* one status sent inline and as the value getBlockedContent fulfils the
\* returned content with in manual mode.
C5_NumericStatus ==
    (verdictBlocked /\ IsNumeric(config.unwantedVisitorTo)) =>
        /\ fetches = 0 /\ fetch = "none"
        /\ mode = "inline" =>
              res.writes = <<Write("sendStatus", StatusOf(config.unwantedVisitorTo), <<>>)>>
        /\ mode = "manual" =>
              /\ result.content.settled /\ result.content.isNumber
              /\ result.content.num = StatusOf(config.unwantedVisitorTo)
              /\ res = NoRes

\* C5 witness: in action mode 3 a blocked inline request was answered with
\* status 599, the top of the range.
C5_Witness ==
    /\ verdictBlocked /\ mode = "inline" /\ config.unwantedVisitorTo = <<"599">>
    /\ config.unwantedVisitorAction = 3
    /\ res.writes = <<Write("sendStatus", 599, <<>>)>> /\ mw = "skipped"

\* The blocked evaluation has nothing left in flight.
BlockSettled == verdictBlocked /\ pc = "done" /\ fetch # "pending"

\* What manual mode ends up holding as content for this configuration, given
\* how the loopback fetch (if one is made) ended.
ManualFinalContent(fetchOk) ==
    IF getBlockedContent.startFetch
    THEN PromiseOfHtml(IF fetchOk THEN FetchedBody ELSE ContentNotAvailable)
    ELSE getBlockedContent.content

\* A write of inline mode corresponds to a content of manual mode: the same
\* status number, the same HTML, a 302 to the URL the redirect fragment names,
\* the two "access denied" documents, or the two fetch-failure placeholders.
Corresponds(w, c) ==
    CASE w.op = "sendStatus" -> c.isNumber /\ c.num = w.status
      [] w.op = "redirect"   -> ~c.isNumber /\ c.html = redirectContent(w.body)
      [] w.op = "send"       ->
            /\ ~c.isNumber
            /\ \/ c.html = w.body
               \/ w.body = AccessDeniedPage /\ c.html = AccessDeniedContent
               \/ w.body = FetchErrorBody /\ c.html = ContentNotAvailable

\* C6: for the same configuration and blocked verdict, what evaluateVisitor
\* delivers corresponds to the content of evaluateVisitorManually in each of
\* the five cases (status, iframe, proxied content and its fallback, redirect,
\* unset target).
C6_InlineManualEquivalent ==
    (mode = "inline" /\ BlockSettled) =>
        /\ result.state = "resolved"
        /\ Len(EvaluatorWrites) = 1
        /\ Corresponds(EvaluatorWrites[1],
                       ManualFinalContent(EvaluatorWrites[1].body = FetchedBody))

\* C7: a manual evaluation that completes with need_to_block true holds in
\* content the final value itself, a status number or an HTML string, never a
\* promise; one that completes with need_to_block false holds null.
C7_ManualContentIsFinal ==
    (mode = "manual" /\ pc = "done" /\ result.state = "resolved") =>
        IF result.need_to_block
        THEN result.content.kind # "promise" /\ result.content.kind # "null"
        ELSE result.content = NullContent

\* C8: in inline mode the promise of evaluateVisitor resolves only after the
\* block response has been written, so the middleware that continues after it
\* never meets a blocked request without a response and the response is never
\* written twice.
C8_ResolvesAfterWrite ==
    (mode = "inline" /\ verdictBlocked /\ result.state = "resolved") =>
        /\ Len(EvaluatorWrites) >= 1
        /\ mw # "route"
        /\ Len(res.writes) <= 1

\* C9: in action mode 3 with a blocked verdict the evaluation never throws,
\* and once the loopback fetch has failed (or could not be made at all) a
\* non-empty fallback has been delivered (inline) or is held (manual).
C9_FetchFailureSwallowed ==
    (BlockSettled /\ config.unwantedVisitorAction = 3
       /\ Truthy(config.unwantedVisitorTo) /\ ~IsNumeric(config.unwantedVisitorTo)) =>
        /\ result.state = "resolved"
        /\ mode = "inline" => (Len(EvaluatorWrites) = 1 /\ EvaluatorWrites[1].body # <<>>)
        /\ mode = "manual" => (result.content.settled /\ result.content.html # <<>>)

\* join(', ') as the claim words it: the messages with ", " between them.
RECURSIVE CommaSeparated(_)
CommaSeparated(l) ==
    IF l = <<>> THEN <<>>
    ELSE l[1] \o (IF Len(l) > 1 THEN <<", ">> ELSE <<>>) \o CommaSeparated(Tail(l))

\* C10: in both modes a service envelope with an error ends the evaluation
\* with a thrown error whose message contains the service message, or all
\* messages joined with ", " for a list; it is neither allowed nor blocked,
\* nothing is written and no block content is synthesized.
C10_ServiceErrorThrown ==
    (pc = "done" /\ lastEnvelope.kind = "error") =>
        /\ result.state = "rejected"
        /\ includes(result.error,
                    IF lastEnvelope.isArray THEN CommaSeparated(lastEnvelope.messages)
                    ELSE lastEnvelope.messages[1])
        /\ ~verdictBlocked /\ ~result.need_to_block /\ result.content = NullContent
        /\ res.writes = <<>> /\ fetches = 0 /\ fetch = "none"
        /\ mw \in {"none", "awaiting", "error"}

\* C10 witness: the envelope {error: {message: ["a", "b"]}} ended an inline
\* evaluation with an error naming "a, b", passed on by the middleware.
C10_Witness ==
    /\ mode = "inline" /\ pc = "done" /\ mw = "error"
    /\ lastEnvelope.kind = "error" /\ lastEnvelope.isArray
    /\ lastEnvelope.messages = << <<"a">>, <<"b">> >>
    /\ result.error = <<"Error handling visitor: ", "Requesting analytics error: ", "a", ", ", "b">>

\* The parts of a URL string as written: what follows the scheme up to the
\* first "/", "?" or "#" is the host, then the path up to "?" or "#" ("/" when
\* there is none), then the query up to "#" (none for a bare "?").
RECURSIVE UpTo(_, _)
UpTo(s, stops) ==
    IF s = <<>> \/ Head(s) \in stops THEN <<>> ELSE <<Head(s)>> \o UpTo(Tail(s), stops)
RECURSIVE From(_, _)
From(s, stops) == IF s = <<>> \/ Head(s) \in stops THEN s ELSE From(Tail(s), stops)
WrittenHost(u) == UpTo(Tail(u), {"/", "?", "#"})
WrittenPath(u) ==
    LET p == UpTo(From(Tail(u), {"/", "?", "#"}), {"?", "#"})
    IN  IF p = <<>> THEN <<"/">> ELSE p
WrittenQuery(u) ==
    LET q == UpTo(From(Tail(u), {"?", "#"}), {"#"})
    IN  IF q = <<"?">> THEN <<>> ELSE q

\* A string new URL accepts: a scheme and a host with no space in it.
Parses(u) ==
    /\ u # <<>> /\ Head(u) \in {"http://", "https://"}
    /\ WrittenHost(u) # <<>>
    /\ \A i \in 1..Len(WrittenHost(u)) : WrittenHost(u)[i] # " "

IsAbsolute(t) == t # <<>> /\ Head(t) \in {"http://", "https://"}

\* The matching rule of the claim: an absolute target matches on equal host,
\* path and query, whatever the schemes; any other target matches when it
\* equals the current path+query or the current bare path.
RuleMatch(cur, tgt) ==
    IF IsAbsolute(tgt)
    THEN /\ WrittenHost(cur) = WrittenHost(tgt)
         /\ WrittenPath(cur) = WrittenPath(tgt)
         /\ WrittenQuery(cur) = WrittenQuery(tgt)
    ELSE \/ WrittenPath(cur) \o WrittenQuery(cur) = tgt
         \/ WrittenPath(cur) = tgt

\* The self-URL guard is the step that decides the current evaluation.
GuardDecides ==
    /\ Evaluated /\ config.isProtected /\ Truthy(config.unwantedVisitorTo)
    /\ ~(mode = "inline" /\ req.bypassHeader = <<"1">> /\ req.tokenHeader = bypassToken)

\* new URL throws inside urlsMatch: on the current URL, or on an absolute target.
ComparisonFails ==
    \/ ~Parses(EffectiveUrl)
    \/ IsAbsolute(config.unwantedVisitorTo) /\ ~Parses(config.unwantedVisitorTo)

\* C11 as stated: for every current URL and every URL or path target, the
\* guard matches if and only if the rule holds (absolute target: host, path and query equal, scheme
\* ignored; relative target: equal to the current path+query or bare path).
C11_MatchIffRule ==
    (GuardDecides /\ ~IsNumeric(config.unwantedVisitorTo)) => (decision = "selfurl" <=> RuleMatch(EffectiveUrl, config.unwantedVisitorTo))

\* C11 amended: whenever the current URL, and the target if it is absolute,
\* can be parsed, the guard matches if and only if the rule holds; when one of
\* them cannot be parsed the rule does not decide (substring containment does).
C11_MatchIffRuleWhenParsed ==
    (GuardDecides /\ ~ComparisonFails) =>
        (decision = "selfurl" <=> RuleMatch(EffectiveUrl, config.unwantedVisitorTo))

\* C11 witness: the target https://a.com/blocked matched the inline request
\* http://a.com/blocked, the scheme being ignored.
C11_Witness ==
    /\ GuardDecides /\ mode = "inline" /\ decision = "selfurl"
    /\ config.unwantedVisitorTo = <<"https://", "a.com", "/", "blocked">>
    /\ EffectiveUrl = <<"http://", "a.com", "/", "blocked">>

\* t occurs in s as a run of consecutive tokens.
RECURSIVE IsPrefix(_, _)
IsPrefix(t, s) ==
    t = <<>> \/ (s # <<>> /\ Head(t) = Head(s) /\ IsPrefix(Tail(t), Tail(s)))
RECURSIVE Contains(_, _)
Contains(s, t) == IsPrefix(t, s) \/ (s # <<>> /\ Contains(Tail(s), t))

\* The evaluation went on from the guard to the IP check and, with a valid
\* IP, to the remote query.
ContinuesToIpCheck ==
    IF mode = "inline" /\ req.host = Undefined
    THEN decision = "typeerror" /\ apiQueries = 0
    ELSE IF IsIpLiteral(EvaluatedIp)
    THEN decision = "query" /\ apiQueries = 1
    ELSE decision = "invalidip" /\ result = Rejected(InvalidIpMessage) /\ apiQueries = 0

\* C12 as stated: when the comparison fails (the current URL or the target
\* cannot be parsed) the guard answers "no match" and the evaluation continues
\* to the IP check and the remote query, also for a numeric target.
C12_FailureMeansNoMatch ==
    (GuardDecides /\ ComparisonFails) => (decision # "selfurl" /\ ContinuesToIpCheck)

\* C12 amended: when the comparison fails the guard never throws and answers
\* by substring containment: if the current URL string contains
\* unwantedVisitorTo (numeric status strings included) the evaluation is
\* skipped as allowed, otherwise it continues to the IP check and the remote
\* query.
C12_FailureFallsBackToContainment ==
    (GuardDecides /\ ComparisonFails) =>
        IF Contains(EffectiveUrl, config.unwantedVisitorTo)
        THEN decision = "selfurl" /\ Allowed
        ELSE ContinuesToIpCheck

\* C12 witness: with the numeric target 403, a manual evaluation of the
\* unparseable event "http:// /403" was skipped as allowed.
C12_Witness ==
    /\ GuardDecides /\ ComparisonFails /\ mode = "manual"
    /\ config.unwantedVisitorTo = <<"403">>
    /\ req.event = <<"http://", " ", "/", "403">>
    /\ decision = "selfurl" /\ result = Resolved(FALSE, Null, NullContent)

====
